---- MODULE Spec2Model ----
(***************************************************************************)
(* md2epub: Markdown -> EPUB conversion.                                   *)
(*                                                                         *)
(* Four specifications are developed here:                                 *)
(*   Spec      the library pipeline of md2ebook.py (extract_headings,      *)
(*             split_content_by_chapters, create_epub[_with_cover]) run on *)
(*             one parsed document;                                        *)
(*   SpecLang  the code-block labelling (_process_code_blocks and          *)
(*             _guess_language) run on one code text;                      *)
(*   SpecSrv   the handlers of app.py (upload_cover, convert_to_epub,      *)
(*             download_file, cleanup_old_files) with the directories they *)
(*             read and write, one conversion being served;                *)
(*   SpecConc  two calls of convert_to_epub served at once, alongside      *)
(*             cleanup_old_files.                                          *)
(*                                                                         *)
(* Text is a sequence of one-character strings, so that strip(), lower()   *)
(* and the substring test `in` are computed and not assumed.               *)
(*                                                                         *)
(* The parsed HTML (a BeautifulSoup tree) is a sequence of element nodes,  *)
(* each with the sequence of its child elements; an element of the tree is *)
(* addressed by its path (the child indices from the root).  Only Tag      *)
(* nodes are kept: find_all and find_next_sibling() return Tags only, so   *)
(* the whitespace strings between blocks never take part.                  *)
(***************************************************************************)
EXTENDS Integers, Sequences, FiniteSets, TLC

VARIABLES
    pc,         \* Spec: position of the pipeline
    html,       \* Spec: html_content, the output of parse_markdown_content
    hsoup,      \* Spec: the soup built by extract_headings (heading elements live in it)
    headings,   \* Spec: the list returned by extract_headings
    chapters,   \* Spec: the list returned by split_content_by_chapters
    book,       \* Spec: the EpubBook built by create_epub / create_epub_with_cover
    lpc,        \* SpecLang: position of _process_code_blocks on the block
    code,       \* SpecLang: the <pre><code> block being processed
    lang,       \* SpecLang: the local variable lang
    rq,         \* SpecSrv: the local variables of each call of convert_to_epub
    uploads,    \* SpecSrv: the files of UPLOAD_FOLDER
    output,     \* SpecSrv: the files of OUTPUT_FOLDER
    nextid,     \* SpecSrv: the number of the next uuid4 drawn
    dl,         \* SpecSrv: the local variables of each call of download_file
    aged        \* SpecSrv: the names of the files last written over an hour ago

pvars == <<pc, html, hsoup, headings, chapters, book>>

lvars == <<lpc, code, lang>>

svars == <<rq, uploads, output, nextid, dl, aged>>

vars == <<pvars, lvars, svars>>

----------------------------------------------------------------------------
(* Bounds of the model *)

\* blocks (leaf elements) of a document
MaxBlocks == 3
\* fragments a code text is made of
MaxFrags == 2
\* identifiers (uuid4) drawn by the service
MaxIds == 3

----------------------------------------------------------------------------
(* Text *)

Whitespace == {" ", "\n", "\t"}

RECURSIVE LStrip(_)
LStrip(s) ==
    IF s # <<>> /\ Head(s) \in Whitespace THEN LStrip(Tail(s)) ELSE s

RECURSIVE RStrip(_)
RStrip(s) ==
    IF s # <<>> /\ s[Len(s)] \in Whitespace THEN RStrip(SubSeq(s, 1, Len(s) - 1)) ELSE s

\* str.strip()
Strip(s) == RStrip(LStrip(s))

----------------------------------------------------------------------------
(* The element tree *)

HeadingTags == <<"h1", "h2", "h3", "h4", "h5", "h6">>

IsHeadingTag(name) == \E i \in 1..Len(HeadingTags) : HeadingTags[i] = name

\* int(heading.name[1])
LevelOf(name) == CHOOSE i \in 1..Len(HeadingTags) : HeadingTags[i] = name

\* an element that has no id attribute
NoId == <<>>

\* f"heading_{i}"
HeadingId(i) == <<"heading_", i>>

\* the title of the single chapter of a document without h1/h2 headings
DefaultTitle == <<"Body">>

\* A leaf block: a heading or a paragraph.  src is the block's source order index.
Leaf(name, text, src) ==
    [name |-> name, text |-> text, id |-> NoId, src |-> src, kids |-> <<>>]

\* A container block (blockquote, list item, div) holding other blocks.
Box(kids) ==
    [name |-> "blockquote", text |-> <<>>, id |-> NoId, src |-> 0, kids |-> kids]

RECURSIVE NodeAt(_, _)
NodeAt(nodes, path) ==
    IF Len(path) = 1 THEN nodes[path[1]]
    ELSE NodeAt(nodes[path[1]].kids, Tail(path))

\* heading['id'] = heading_id, on the element at path
RECURSIVE SetId(_, _, _)
SetId(nodes, path, id) ==
    IF Len(path) = 1 THEN [nodes EXCEPT ![path[1]].id = id]
    ELSE [nodes EXCEPT ![path[1]].kids = SetId(@, Tail(path), id)]

\* soup.find_all(['h1', ..., 'h6']): the heading elements at any depth, in
\* document (pre-)order
RECURSIVE FindAll(_, _, _)
FindAll(nodes, prefix, i) ==
    IF i > Len(nodes) THEN <<>>
    ELSE LET p == Append(prefix, i)
             n == nodes[i]
         IN (IF IsHeadingTag(n.name) THEN <<p>> ELSE <<>>)
            \o FindAll(n.kids, p, 1)
            \o FindAll(nodes, prefix, i + 1)

\* "no element": what find_next_sibling() returns after the last sibling
None == <<>>

Front(path) == SubSeq(path, 1, Len(path) - 1)

\* the children of the parent of the element at path
SiblingsOf(soup, path) ==
    IF Len(path) = 1 THEN soup ELSE NodeAt(soup, Front(path)).kids

\* element.find_next_sibling(): the next Tag under the same parent
FindNextSibling(soup, path) ==
    IF path[Len(path)] < Len(SiblingsOf(soup, path))
    THEN Append(Front(path), path[Len(path)] + 1)
    ELSE None

\* heading.get_text(): the text of the element and of its descendants
RECURSIVE GetText(_)
RECURSIVE GetTextAll(_, _)
GetText(n) == n.text \o GetTextAll(n.kids, 1)
GetTextAll(nodes, i) ==
    IF i > Len(nodes) THEN <<>> ELSE GetText(nodes[i]) \o GetTextAll(nodes, i + 1)

----------------------------------------------------------------------------
(* extract_headings *)

\* a variant of HeadingRecord that derives the id from the heading's level
HeadingRecord_IdFromLevel(soup, path, i) ==
    [level   |-> LevelOf(NodeAt(soup, path).name),
     title   |-> Strip(GetText(NodeAt(soup, path))),
     id      |-> HeadingId(LevelOf(NodeAt(soup, path).name)),
     element |-> path]

\* the loop body of extract_headings for enumerate index i (0-based)
HeadingRecord(soup, path, i) ==
    [level   |-> LevelOf(NodeAt(soup, path).name),
     title   |-> Strip(GetText(NodeAt(soup, path))),
     id      |-> HeadingId(i),
     element |-> path]

RECURSIVE ExtractLoop(_, _, _, _)
ExtractLoop(soup, found, i, acc) ==
    IF i >= Len(found) THEN [soup |-> soup, headings |-> acc]
    ELSE ExtractLoop(SetId(soup, found[i + 1], HeadingId(i)), found, i + 1,
                     Append(acc, HeadingRecord(soup, found[i + 1], i)))

\* extract_headings(html_content): the headings list, and the soup whose
\* elements the 'element' fields refer to
ExtractHeadings(html_content) ==
    ExtractLoop(html_content, FindAll(html_content, <<>>, 1), 0, <<>>)

----------------------------------------------------------------------------
(* split_content_by_chapters *)

\* the break condition of the sibling walk
StopsChapter(heading, name) ==
    /\ name \in {"h1", "h2"}
    /\ (name = "h1" \/ (heading.level = 2 /\ name = "h2"))

\* the while loop: the serialised siblings collected after the element at cur
RECURSIVE CollectSiblings(_, _, _)
CollectSiblings(soup, heading, cur) ==
    LET next == FindNextSibling(soup, cur)
    IN IF next = None THEN <<>>
       ELSE IF StopsChapter(heading, NodeAt(soup, next).name) THEN <<>>
       ELSE <<NodeAt(soup, next)>> \o CollectSiblings(soup, heading, next)

\* one iteration of the for loop over the boundary headings
ChapterOf(soup, heading) ==
    [title   |-> heading.title,
     content |-> <<NodeAt(soup, heading.element)>>
                 \o CollectSiblings(soup, heading, heading.element)]

WithLevel(hs, l) == SelectSeq(hs, LAMBDA h : h.level = l)

\* a variant of BoundaryHeadings that prefers the level-2 headings
BoundaryHeadings_PreferH2(hs) ==
    IF WithLevel(hs, 2) # <<>> THEN WithLevel(hs, 2) ELSE WithLevel(hs, 1)

\* h1_headings: the level-1 headings, or the level-2 headings when there is none
BoundaryHeadings(hs) ==
    IF WithLevel(hs, 1) # <<>> THEN WithLevel(hs, 1) ELSE WithLevel(hs, 2)

\* a variant of SplitContentByChapters without the second fallback (the one
\* taken when there are headings but none of level 1 or 2)
SplitContentByChapters_NoSecondFallback(html_content, hs, esoup) ==
    IF hs = <<>>
    THEN <<[title |-> DefaultTitle, content |-> html_content]>>
    ELSE [i \in 1..Len(BoundaryHeadings(hs)) |->
             ChapterOf(esoup, BoundaryHeadings(hs)[i])]

\* split_content_by_chapters(html_content, headings); esoup is the soup the
\* heading elements belong to (the one extract_headings built and mutated)
SplitContentByChapters(html_content, hs, esoup) ==
    IF hs = <<>> \/ BoundaryHeadings(hs) = <<>>
    THEN <<[title |-> DefaultTitle, content |-> html_content]>>
    ELSE [i \in 1..Len(BoundaryHeadings(hs)) |->
             ChapterOf(esoup, BoundaryHeadings(hs)[i])]

----------------------------------------------------------------------------
(* create_epub *)

\* f"chapter_{i}.xhtml"
ChapterFile(i) == <<"chapter_", i, ".xhtml">>

\* f"chapter_{i}"
ChapterUid(i) == <<"chapter_", i>>

\* a variant of CreateDetailedToc that numbers the chapter files from 1
CreateDetailedToc_OneBased(hs, chs) ==
    [k \in 1..Len(chs) |->
        [href |-> ChapterFile(k), title |-> chs[k].title, uid |-> ChapterUid(k)]]

\* create_detailed_toc(headings, chapters)
CreateDetailedToc(hs, chs) ==
    [k \in 1..Len(chs) |->
        [href |-> ChapterFile(k - 1), title |-> chs[k].title, uid |-> ChapterUid(k - 1)]]

\* the EpubHtml item of chapter i (0-based)
EpubChapter(chs, i) ==
    [file_name |-> ChapterFile(i), title |-> chs[i + 1].title,
     content |-> chs[i + 1].content]

\* the 'nav' entry of the spine
NavRef == [file_name |-> <<"nav">>, title |-> <<>>, content |-> <<>>]

EpubChapters(chs) == [k \in 1..Len(chs) |-> EpubChapter(chs, k - 1)]

\* what book.set_cover was not called on
NoCover == [file_name |-> <<>>, media_type |-> <<>>, content |-> ""]

NoBook == [identifier |-> "", toc |-> <<>>, spine |-> <<>>, cover |-> NoCover]

\* create_epub(chapters, headings, title, author, output_file): the book
\* handed to epub.write_epub
CreateEpub(chs, hs) ==
    [identifier |-> "md2epub",
     toc        |-> CreateDetailedToc(hs, chs),
     spine      |-> <<NavRef>> \o EpubChapters(chs),
     cover      |-> NoCover]

\* MarkdownEbookConverter.create_epub_with_cover(chapters, headings, title,
\* author, output_file) of md2ebook.py, called without a cover_path
CreateEpubNoCover(chs, hs) ==
    [identifier |-> "md2epub-web",
     toc        |-> CreateDetailedToc(hs, chs),
     spine      |-> <<NavRef>> \o EpubChapters(chs),
     cover      |-> NoCover]

----------------------------------------------------------------------------
(* Text: case and search *)

LowerChars ==
    << "a", "b", "c", "d", "e", "f", "g", "h", "i", "j", "k", "l", "m", "n", "o", "p", "q", "r", "s", "t", "u", "v", "w", "x", "y", "z" >>

UpperChars ==
    << "A", "B", "C", "D", "E", "F", "G", "H", "I", "J", "K", "L", "M", "N", "O", "P", "Q", "R", "S", "T", "U", "V", "W", "X", "Y", "Z" >>

\* str.lower() on one character
LowerChar(c) ==
    IF \E i \in 1..Len(UpperChars) : UpperChars[i] = c
    THEN LowerChars[CHOOSE i \in 1..Len(UpperChars) : UpperChars[i] = c]
    ELSE c

\* str.upper() on one character
UpperChar(c) ==
    IF \E i \in 1..Len(LowerChars) : LowerChars[i] = c
    THEN UpperChars[CHOOSE i \in 1..Len(LowerChars) : LowerChars[i] = c]
    ELSE c

\* str.lower()
Lower(s) == [k \in 1..Len(s) |-> LowerChar(s[k])]

\* str.upper()
Upper(s) == [k \in 1..Len(s) |-> UpperChar(s[k])]

\* str.startswith(prefix)
StartsWith(s, prefix) ==
    Len(s) >= Len(prefix) /\ SubSeq(s, 1, Len(prefix)) = prefix

\* `sub in s`
Contains(s, sub) ==
    \E k \in 0..(Len(s) - Len(sub)) : SubSeq(s, k + 1, k + Len(sub)) = sub

\* any(keyword in s for keyword in keywords)
ContainsAny(s, keywords) ==
    \E k \in 1..Len(keywords) : Contains(s, keywords[k])

\* s.replace(old, ''), old not empty
RECURSIVE Remove(_, _)
Remove(s, old) ==
    IF s = <<>> THEN <<>>
    ELSE IF StartsWith(s, old) THEN Remove(SubSeq(s, Len(old) + 1, Len(s)), old)
    ELSE <<Head(s)>> \o Remove(Tail(s), old)

----------------------------------------------------------------------------
(* _guess_language *)

\* 'select', 'insert', 'update', 'delete', 'create', 'drop', 'alter', 'from', 'where', 'join'
sql_keywords ==
    << <<"s", "e", "l", "e", "c", "t">>,
       <<"i", "n", "s", "e", "r", "t">>,
       <<"u", "p", "d", "a", "t", "e">>,
       <<"d", "e", "l", "e", "t", "e">>,
       <<"c", "r", "e", "a", "t", "e">>,
       <<"d", "r", "o", "p">>,
       <<"a", "l", "t", "e", "r">>,
       <<"f", "r", "o", "m">>,
       <<"w", "h", "e", "r", "e">>,
       <<"j", "o", "i", "n">> >>

\* 'def ', 'import ', 'from ', 'class ', 'if __name__', 'print('
python_keywords ==
    << <<"d", "e", "f", " ">>,
       <<"i", "m", "p", "o", "r", "t", " ">>,
       <<"f", "r", "o", "m", " ">>,
       <<"c", "l", "a", "s", "s", " ">>,
       <<"i", "f", " ", "_", "_", "n", "a", "m", "e", "_", "_">>,
       <<"p", "r", "i", "n", "t", "(">> >>

\* 'function', 'var ', 'let ', 'const ', 'console.log', '=>'
js_keywords ==
    << <<"f", "u", "n", "c", "t", "i", "o", "n">>,
       <<"v", "a", "r", " ">>,
       <<"l", "e", "t", " ">>,
       <<"c", "o", "n", "s", "t", " ">>,
       <<"c", "o", "n", "s", "o", "l", "e", ".", "l", "o", "g">>,
       <<"=", ">">> >>

\* 'public class', 'public static', 'system.out.println'
java_keywords ==
    << <<"p", "u", "b", "l", "i", "c", " ", "c", "l", "a", "s", "s">>,
       <<"p", "u", "b", "l", "i", "c", " ", "s", "t", "a", "t", "i", "c">>,
       <<"s", "y", "s", "t", "e", "m", ".", "o", "u", "t", ".", "p", "r", "i", "n", "t", "l", "n">> >>

\* '<html', '<div', '<p>', '<span'
html_tags ==
    << <<"<", "h", "t", "m", "l">>,
       <<"<", "d", "i", "v">>,
       <<"<", "p", ">">>,
       <<"<", "s", "p", "a", "n">> >>

\* '#!/bin/bash', 'echo ', 'cd ', 'ls ', 'chmod ', 'sudo '
bash_keywords ==
    << <<"#", "!", "/", "b", "i", "n", "/", "b", "a", "s", "h">>,
       <<"e", "c", "h", "o", " ">>,
       <<"c", "d", " ">>,
       <<"l", "s", " ">>,
       <<"c", "h", "m", "o", "d", " ">>,
       <<"s", "u", "d", "o", " ">> >>

Tag_sql == <<"s", "q", "l">>

Tag_python == <<"p", "y", "t", "h", "o", "n">>

Tag_javascript == <<"j", "a", "v", "a", "s", "c", "r", "i", "p", "t">>

Tag_java == <<"j", "a", "v", "a">>

Tag_html == <<"h", "t", "m", "l">>

Tag_css == <<"c", "s", "s">>

Tag_bash == <<"b", "a", "s", "h">>

Tag_text == <<"t", "e", "x", "t">>


SqlRule(code_text) == ContainsAny(code_text, sql_keywords)

PythonRule(code_text) == ContainsAny(code_text, python_keywords)

JsRule(code_text) == ContainsAny(code_text, js_keywords)

JavaRule(code_text) == ContainsAny(code_text, java_keywords)

HtmlRule(code_text) ==
    /\ Contains(code_text, <<"<">>)
    /\ Contains(code_text, <<">">>)
    /\ ContainsAny(code_text, html_tags)

CssRule(code_text) ==
    /\ Contains(code_text, <<"{">>)
    /\ Contains(code_text, <<"}">>)
    /\ Contains(code_text, <<":">>)

BashRule(code_text) == ContainsAny(code_text, bash_keywords)

\* a variant of GuessLanguage that tests the python keywords before the sql ones
GuessLanguage_PythonFirst(code_text) ==
    IF PythonRule(code_text) THEN Tag_python
    ELSE IF SqlRule(code_text) THEN Tag_sql
    ELSE IF JsRule(code_text) THEN Tag_javascript
    ELSE IF JavaRule(code_text) THEN Tag_java
    ELSE IF HtmlRule(code_text) THEN Tag_html
    ELSE IF CssRule(code_text) THEN Tag_css
    ELSE IF BashRule(code_text) THEN Tag_bash
    ELSE Tag_text

\* _guess_language(code_text)
GuessLanguage(code_text) ==
    IF SqlRule(code_text) THEN Tag_sql
    ELSE IF PythonRule(code_text) THEN Tag_python
    ELSE IF JsRule(code_text) THEN Tag_javascript
    ELSE IF JavaRule(code_text) THEN Tag_java
    ELSE IF HtmlRule(code_text) THEN Tag_html
    ELSE IF CssRule(code_text) THEN Tag_css
    ELSE IF BashRule(code_text) THEN Tag_bash
    ELSE Tag_text

----------------------------------------------------------------------------
(* _process_code_blocks *)

ClassLanguagePrefix == <<"l", "a", "n", "g", "u", "a", "g", "e", "-">>

ClassHighlightPrefix == <<"h", "i", "g", "h", "l", "i", "g", "h", "t", "-">>

\* the for loop over the classes of the <code> element: the language named
\* by the first class that starts with 'language-' or 'highlight-'; <<>> (no
\* language) when there is none
RECURSIVE LangFromClasses(_, _)
LangFromClasses(classes, i) ==
    IF i > Len(classes) THEN <<>>
    ELSE IF StartsWith(classes[i], ClassLanguagePrefix)
         THEN Remove(classes[i], ClassLanguagePrefix)
    ELSE IF StartsWith(classes[i], ClassHighlightPrefix)
         THEN Remove(classes[i], ClassHighlightPrefix)
    ELSE LangFromClasses(classes, i + 1)

\* code_text = code.get_text().strip().lower()
CodeTextOf(text) == Lower(Strip(text))

ClassHighlight == <<"h", "i", "g", "h", "l", "i", "g", "h", "t">>

\* pre['class'] = pre.get('class', []) + ['highlight'] unless it is there
WithHighlight(pre_class) ==
    IF \E k \in 1..Len(pre_class) : pre_class[k] = ClassHighlight
    THEN pre_class ELSE Append(pre_class, ClassHighlight)

----------------------------------------------------------------------------
(* The code blocks *)

\* the pieces the code texts are made of
Fragments ==
    { <<"S", "E", "L", "E", "C", "T", " ", "*", " ", "F", "R", "O", "M", " ", "t">>,
       <<"d", "e", "f", " ", "f", "(", ")", ":">>,
       <<"i", "m", "p", "o", "r", "t", " ">>,
       <<"f", "u", "n", "c", "t", "i", "o", "n">>,
       <<"p", "u", "b", "l", "i", "c", " ", "s", "t", "a", "t", "i", "c">>,
       <<"<", "d", "i", "v">>,
       <<">">>,
       <<"{", "b", ":", "c">>,
       <<"}">>,
       <<"e", "c", "h", "o", " ">>,
       <<"x">> }


RECURSIVE TextsUpTo(_)
TextsUpTo(n) ==
    IF n = 0 THEN {<<>>}
    ELSE TextsUpTo(n - 1) \cup {t \o f : t \in TextsUpTo(n - 1), f \in Fragments}

CodeTexts == TextsUpTo(MaxFrags)

\* the class lists of the <code> element: none, an explicit language, a
\* class that names no language, an empty language name
CodeClasses ==
    { <<>>,
      << <<"l", "a", "n", "g", "u", "a", "g", "e", "-", "j", "a", "v", "a">> >>,
      << <<"c", "o", "d", "e", "h", "i", "l", "i", "t", "e">>, <<"h", "i", "g", "h", "l", "i", "g", "h", "t", "-", "j", "s">> >>,
      << <<"l", "a", "n", "g", "u", "a", "g", "e", "-">> >> }

PreClasses == { <<>>, << ClassHighlight >> }

\* what no language was computed for yet
NoLang == <<"?">>

NoBlock == [classes |-> <<>>, text |-> <<>>, pre_class |-> <<>>, span |-> <<>>]

CodeBlocks == [classes : CodeClasses, text : CodeTexts, pre_class : PreClasses, span : {<<>>}]

----------------------------------------------------------------------------
(* The documents *)

\* the heading texts of the documents; one carries leading whitespace
Texts == {<<"A">>, <<" ", "B">>}

\* the heading levels of the documents: h3 stands for h3 .. h6, which the
\* code treats alike (a heading that is neither h1 nor h2)
DocLevels == {1, 2, 3}

DocTags == {"p"} \cup {HeadingTags[l] : l \in DocLevels}

\* a block as written in the markup: its tag, its text and whether it is
\* nested in a container
FlatBlocks ==
    [name : DocTags \ {"p"}, text : Texts, nested : BOOLEAN]
    \cup [name : {"p"}, text : {<<"x">>}, nested : BOOLEAN]

FlatDocs == UNION {[1..n -> FlatBlocks] : n \in 0..MaxBlocks}

\* the end of the run of nested blocks that starts at i
RECURSIVE RunEnd(_, _)
RunEnd(flat, i) ==
    IF i < Len(flat) /\ flat[i + 1].nested THEN RunEnd(flat, i + 1) ELSE i

\* the tree of a flat document: each maximal run of nested blocks becomes one
\* container
RECURSIVE TreeOf(_, _)
TreeOf(flat, i) ==
    IF i > Len(flat) THEN <<>>
    ELSE IF flat[i].nested
         THEN <<Box([k \in 1..(RunEnd(flat, i) - i + 1) |->
                        Leaf(flat[i + k - 1].name, flat[i + k - 1].text, i + k - 1)])>>
              \o TreeOf(flat, RunEnd(flat, i) + 1)
         ELSE <<Leaf(flat[i].name, flat[i].text, i)>> \o TreeOf(flat, i + 1)

Docs == {TreeOf(flat, 1) : flat \in FlatDocs}

----------------------------------------------------------------------------
(* Spec: the pipeline of md2ebook.py on one document *)

\* the web service is not running
SIdle ==
    /\ rq = <<>>
    /\ uploads = {}
    /\ output = {}
    /\ nextid = 0
    /\ dl = <<>>
    /\ aged = {}

\* no code block is being processed
LIdle ==
    /\ lpc = "idle"
    /\ code = NoBlock
    /\ lang = NoLang

Init ==
    /\ pc = "parsed"
    /\ html \in Docs
    /\ hsoup = <<>>
    /\ headings = <<>>
    /\ chapters = <<>>
    /\ book = NoBook
    /\ LIdle
    /\ SIdle

\* headings = converter.extract_headings(html)
DoExtractHeadings ==
    /\ pc = "parsed"
    /\ hsoup' = ExtractHeadings(html).soup
    /\ headings' = ExtractHeadings(html).headings
    /\ pc' = "extracted"
    /\ UNCHANGED <<html, chapters, book, lvars, svars>>

\* chapters = converter.split_content_by_chapters(html, headings)
DoSplitContentByChapters ==
    /\ pc = "extracted"
    /\ chapters' = SplitContentByChapters(html, headings, hsoup)
    /\ pc' = "split"
    /\ UNCHANGED <<html, hsoup, headings, book, lvars, svars>>

\* converter.create_epub(chapters, headings, title, author, output_file)
DoCreateEpub ==
    /\ pc = "split"
    /\ book' = CreateEpub(chapters, headings)
    /\ pc' = "assembled"
    /\ UNCHANGED <<html, hsoup, headings, chapters, lvars, svars>>

\* converter.create_epub_with_cover(chapters, headings, title, author, output_file)
DoCreateEpubWithCover ==
    /\ pc = "split"
    /\ book' = CreateEpubNoCover(chapters, headings)
    /\ pc' = "assembled"
    /\ UNCHANGED <<html, hsoup, headings, chapters, lvars, svars>>

Next ==
    \/ DoExtractHeadings
    \/ DoSplitContentByChapters
    \/ DoCreateEpub
    \/ DoCreateEpubWithCover

Spec == Init /\ [][Next]_vars

----------------------------------------------------------------------------
(* SpecLang: _process_code_blocks on one <pre><code> block *)

\* no document is in the pipeline
PIdle ==
    /\ pc = "idle"
    /\ html = <<>>
    /\ hsoup = <<>>
    /\ headings = <<>>
    /\ chapters = <<>>
    /\ book = NoBook

LInit ==
    /\ lpc = "pre"
    /\ code \in CodeBlocks
    /\ lang = NoLang
    /\ PIdle
    /\ SIdle

\* lines 68-78: the language named by the classes of the <code> element
DoReadClasses ==
    /\ lpc = "pre"
    /\ lang' = LangFromClasses(code.classes, 1)
    /\ lpc' = "classes"
    /\ UNCHANGED <<code, pvars, svars>>

\* lines 81-83: no language was named, guess it from the code text
DoGuessLanguage ==
    /\ lpc = "classes"
    /\ lang = <<>>
    /\ lang' = GuessLanguage(CodeTextOf(code.text))
    /\ lpc' = "lang"
    /\ UNCHANGED <<code, pvars, svars>>

\* line 81: a language was named, it is kept
DoKeepLanguage ==
    /\ lpc = "classes"
    /\ lang # <<>>
    /\ lpc' = "lang"
    /\ UNCHANGED <<code, lang, pvars, svars>>

\* lines 86-93: the label span and the class of the <pre> element
DoAddLabel ==
    /\ lpc = "lang"
    /\ code' = [code EXCEPT
                  !.span = IF lang # <<>> THEN Upper(lang) ELSE @,
                  !.pre_class = WithHighlight(@)]
    /\ lpc' = "done"
    /\ UNCHANGED <<lang, pvars, svars>>

LNext ==
    \/ DoReadClasses
    \/ DoGuessLanguage
    \/ DoKeepLanguage
    \/ DoAddLabel

SpecLang == LInit /\ [][LNext]_vars

----------------------------------------------------------------------------
(* app.py: values, names and files *)

\* an optional value; data.get(key) and cover_path are None when unset
PyNone == [some |-> FALSE, val |-> <<>>]

Some(v) == [some |-> TRUE, val |-> v]

\* `not value` for an optional string: None and '' are false
Falsy(v) == ~v.some \/ v.val = <<>>

IdChars == <<"a", "b", "c", "d", "e", "f">>

\* str(uuid.uuid4()): the n-th identifier drawn; identifiers never repeat
Uuid(n) == <<"id-", IdChars[n]>>

Digits == {"0", "1", "2", "3", "4", "5", "6", "7", "8", "9"}

\* the characters werkzeug's secure_filename keeps
SafeChars ==
    {LowerChars[i] : i \in 1..Len(LowerChars)}
    \cup {UpperChars[i] : i \in 1..Len(UpperChars)}
    \cup Digits \cup {"_", ".", "-"}

RECURSIVE LStripChars(_, _)
LStripChars(s, cs) ==
    IF s # <<>> /\ Head(s) \in cs THEN LStripChars(Tail(s), cs) ELSE s

RECURSIVE RStripChars(_, _)
RStripChars(s, cs) ==
    IF s # <<>> /\ s[Len(s)] \in cs
    THEN RStripChars(SubSeq(s, 1, Len(s) - 1), cs) ELSE s

\* secure_filename(title), for a title that is already stripped: whitespace
\* becomes '_', characters outside [A-Za-z0-9_.-] are dropped, leading and
\* trailing '.' and '_' are stripped
SecureFilename(title) ==
    LET joined == [k \in 1..Len(title) |->
                      IF title[k] \in Whitespace THEN "_" ELSE title[k]]
        kept == SelectSeq(joined, LAMBDA c : c \in SafeChars)
    IN RStripChars(LStripChars(kept, {".", "_"}), {".", "_"})

\* f"{unique_id}_cover.{ext}"
CoverFileName(id, ext) == id \o <<"_cover", ".">> \o ext

\* f"{unique_id}_temp.md"
TempMdName(id) == id \o <<"_temp", ".", "m", "d">>

\* f"{unique_id}_{secure_filename(title)}.epub"
EpubFileName(id, title) ==
    id \o <<"_">> \o SecureFilename(title) \o <<".", "e", "p", "u", "b">>

Ext_png == <<"p", "n", "g">>

Ext_jpg == <<"j", "p", "g">>

Ext_jpeg == <<"j", "p", "e", "g">>

Ext_gif == <<"g", "i", "f">>

\* ALLOWED_IMAGE_EXTENSIONS
ALLOWED_IMAGE_EXTENSIONS == {Ext_png, Ext_jpg, Ext_jpeg, Ext_gif}

\* the order in which convert_to_epub looks for the cover file
CoverSearchOrder == <<Ext_png, Ext_jpg, Ext_jpeg, Ext_gif>>

\* os.path.exists(os.path.join(folder, name))
Exists(folder, name) == \E f \in folder : f.name = name

\* open(path, 'rb').read()
ReadFile(folder, name) == (CHOOSE f \in folder : f.name = name).data

\* name.split('.')[-1]
RECURSIVE AfterLastDot(_)
AfterLastDot(name) ==
    IF Contains(name, <<".">>) THEN AfterLastDot(Tail(name)) ELSE name

\* lines 180-186: the first existing cover file of cover_id, in search order
RECURSIVE FindCover(_, _, _)
FindCover(folder, cover_id, i) ==
    IF i > Len(CoverSearchOrder) THEN PyNone
    ELSE IF Exists(folder, CoverFileName(cover_id, CoverSearchOrder[i]))
         THEN Some(CoverFileName(cover_id, CoverSearchOrder[i]))
    ELSE FindCover(folder, cover_id, i + 1)

----------------------------------------------------------------------------
(* app.py: EnhancedMarkdownEbookConverter *)

\* the markup, line by line: '#' marks a heading, '>' a block quote, and a
\* line of white space separates blocks
MarkupLines ==
    {"# A", "# B", "## A.1", "### c", "hi", "sub", "bye", "> # B", "> q",
     "    def f():", "~~~java x;~~~"}

\* the block a markup line stands for
LineBlock(line) ==
    CASE line = "# A"    -> [name |-> "h1", text |-> <<"A">>, nested |-> FALSE]
      [] line = "# B"    -> [name |-> "h1", text |-> <<"B">>, nested |-> FALSE]
      [] line = "## A.1" -> [name |-> "h2", text |-> <<"A", ".", "1">>, nested |-> FALSE]
      [] line = "### c"  -> [name |-> "h3", text |-> <<"c">>, nested |-> FALSE]
      [] line = "> # B"  -> [name |-> "h1", text |-> <<"B">>, nested |-> TRUE]
      [] line = "> q"    -> [name |-> "p", text |-> <<"q">>, nested |-> TRUE]
      [] line = "    def f():" ->
             [name |-> "pre", text |-> <<"d", "e", "f", " ", "f", "(", ")", ":">>,
              nested |-> FALSE]
      [] line = "~~~java x;~~~" ->
             [name |-> "pre", text |-> <<"x", ";">>, nested |-> FALSE]
      [] OTHER           -> [name |-> "p", text |-> <<line>>, nested |-> FALSE]

\* EnhancedMarkdownEbookConverter.parse_markdown_content(content): md.convert
\* alone; no code block is post-processed
MdConvert(content) ==
    LET lines == SelectSeq(content, LAMBDA l : l \notin Whitespace)
    IN TreeOf([k \in 1..Len(lines) |-> LineBlock(lines[k])], 1)

MediaJpeg == <<"image/", "j", "p", "e", "g">>

\* lines 299-300: the media type computed from the cover file's extension
MediaTypeOf(cover_path) ==
    LET ext == Lower(AfterLastDot(cover_path))
    IN IF ext \in {Ext_png, Ext_gif} THEN <<"image/">> \o ext ELSE MediaJpeg

\* what ebooklib derives the media type of an item from: its file name
GuessType(file_name) ==
    LET ext == Lower(AfterLastDot(file_name))
    IN IF ext \in {Ext_png, Ext_gif} THEN <<"image/">> \o ext ELSE MediaJpeg

CoverName == <<"c", "o", "v", "e", "r", ".", "j", "p", "g">>

\* book.set_cover(file_name, content): the cover item of the book
SetCover(file_name, content) ==
    [file_name |-> file_name, media_type |-> GuessType(file_name), content |-> content]

\* EnhancedMarkdownEbookConverter.create_epub_with_cover, up to the book
\* handed to epub.write_epub; folder is the upload directory
CreateEpubWithCover(chs, hs, cover_path, folder) ==
    [identifier |-> "md2epub-web",
     toc        |-> CreateDetailedToc(hs, chs),
     spine      |-> <<NavRef>> \o EpubChapters(chs),
     cover      |-> IF cover_path.some /\ Exists(folder, cover_path.val)
                    THEN SetCover(CoverName, ReadFile(folder, cover_path.val))
                    ELSE NoCover]

----------------------------------------------------------------------------
(* app.py: the requests *)

TitleInputs == {PyNone, Some(<<>>), Some(<<" ">>), Some(<<"T">>), Some(<<" ", "T">>)}

AuthorInputs == {PyNone, Some(<<" ">>), Some(<<"W">>)}

ContentInputs ==
    {PyNone, Some(<<>>), Some(<<"\n">>),
     Some(<<"hi">>),
     Some(<<"# A", "hi", "## A.1", "sub", "# B", "bye">>),
     Some(<<"\n", "# A", "> # B", "> q">>),
     Some(<<"# A", "    def f():", "~~~java x;~~~">>)}

\* a complete JSON body without a cover
BaseBody ==
    [title |-> Some(<<" ", "T">>), author |-> Some(<<"W">>),
     content |-> Some(<<"# A", "hi">>), cover_id |-> PyNone]

\* the JSON bodies of /api/convert: the complete body with one of its fields
\* replaced; a cover_id names an identifier issued so far
RequestData(issued) ==
    {[BaseBody EXCEPT !.title = t] : t \in TitleInputs}
    \cup {[BaseBody EXCEPT !.author = a] : a \in AuthorInputs}
    \cup {[BaseBody EXCEPT !.content = c] : c \in ContentInputs}
    \cup {[BaseBody EXCEPT !.cover_id = Some(Uuid(n))] : n \in 1..issued}

\* the file extensions of the images sent to /api/upload_cover
CoverUploads ==
    {Ext_png, <<"P", "N", "G">>, Ext_jpg, Ext_gif, <<"b", "m", "p">>}

NoResp == [status |-> 0, error |-> "", download_id |-> <<>>, filename |-> <<>>]

\* jsonify({'error': ...}), 400
BadRequest == [status |-> 400, error |-> "incomplete", download_id |-> <<>>, filename |-> <<>>]

\* jsonify({'error': f'conversion failed: {str(e)}'}), 500
ServerError(e) == [status |-> 500, error |-> e, download_id |-> <<>>, filename |-> <<>>]

\* jsonify({'success': True, 'download_id': ..., 'filename': ...})
Success(id, filename) ==
    [status |-> 200, error |-> "", download_id |-> id, filename |-> filename]

\* the local variables of one call of convert_to_epub
NewRequest ==
    [pc |-> "start", data |-> [title |-> PyNone, author |-> PyNone,
                               content |-> PyNone, cover_id |-> PyNone],
     title |-> <<>>, author |-> <<>>, content |-> <<>>, cover_id |-> PyNone,
     unique_id |-> <<>>, cover_path |-> PyNone, epub_filename |-> <<>>,
     html |-> <<>>, hsoup |-> <<>>, headings |-> <<>>, chapters |-> <<>>,
     media_type |-> <<>>, book |-> NoBook, resp |-> NoResp]

\* the call of convert_to_epub being served
SrvRequests == {1}

\* two calls of convert_to_epub served at once, each in its own thread
ConcRequests == {1, 2}

\* "no file"
NoFile == [name |-> <<>>, complete |-> FALSE, book |-> NoBook]

\* the local variables of one call of download_file
NewDownload == [pc |-> "start", download_id |-> <<>>, status |-> 0, file |-> NoFile]

\* the calls of download_file being served
DlRequests == {1}

SInit ==
    /\ rq = [r \in SrvRequests |-> NewRequest]
    /\ uploads = {}
    /\ output = {}
    /\ nextid = 1
    /\ dl = [d \in DlRequests |-> NewDownload]
    /\ aged = {}
    /\ PIdle
    /\ LIdle

\* upload_cover: an image with an allowed extension is saved under a new id
UploadCover ==
    /\ nextid <= MaxIds
    /\ \E raw \in CoverUploads :
          /\ Lower(raw) \in ALLOWED_IMAGE_EXTENSIONS
          /\ uploads' = uploads \cup
                {[name |-> CoverFileName(Uuid(nextid), Lower(raw)), data |-> "image"]}
    /\ nextid' = nextid + 1
    /\ UNCHANGED <<rq, output, pvars, lvars, dl, aged>>

\* lines 154-163: the required fields are tested, then stripped
ConvertValidate(r) ==
    /\ rq[r].pc = "start"
    /\ \E d \in RequestData(nextid - 1) :
          IF Falsy(d.title) \/ Falsy(d.author) \/ Falsy(d.content)
          THEN rq' = [rq EXCEPT ![r].data = d, ![r].pc = "done",
                                ![r].resp = BadRequest]
          ELSE rq' = [rq EXCEPT ![r].data = d, ![r].pc = "validated",
                                ![r].title = Strip(d.title.val),
                                ![r].author = Strip(d.author.val),
                                ![r].content = Strip(d.content.val),
                                ![r].cover_id = d.cover_id]
    /\ UNCHANGED <<uploads, output, nextid, pvars, lvars, dl, aged>>

\* line 166: unique_id = str(uuid.uuid4())
ConvertNewId(r) ==
    /\ rq[r].pc = "validated"
    /\ nextid <= MaxIds
    /\ rq' = [rq EXCEPT ![r].unique_id = Uuid(nextid), ![r].pc = "named"]
    /\ nextid' = nextid + 1
    /\ UNCHANGED <<uploads, output, pvars, lvars, dl, aged>>

\* lines 169-173: the temporary markdown file is written
ConvertWriteMd(r) ==
    /\ rq[r].pc = "named"
    /\ uploads' = uploads \cup {[name |-> TempMdName(rq[r].unique_id), data |-> "md"]}
    /\ rq' = [rq EXCEPT ![r].pc = "md_written"]
    /\ UNCHANGED <<output, nextid, pvars, lvars, dl, aged>>

\* lines 176-190: the cover file is looked up, the output file is named
ConvertFindCover(r) ==
    /\ rq[r].pc = "md_written"
    /\ rq' = [rq EXCEPT
                ![r].cover_path =
                    IF Falsy(rq[r].cover_id) THEN PyNone
                    ELSE FindCover(uploads, rq[r].cover_id.val, 1),
                ![r].epub_filename = EpubFileName(rq[r].unique_id, rq[r].title),
                ![r].pc = "ready"]
    /\ UNCHANGED <<uploads, output, nextid, pvars, lvars, dl, aged>>

\* line 193: html_content = converter.parse_markdown_content(content)
ConvertParse(r) ==
    /\ rq[r].pc = "ready"
    /\ rq' = [rq EXCEPT ![r].html = MdConvert(rq[r].content), ![r].pc = "parsed"]
    /\ UNCHANGED <<uploads, output, nextid, pvars, lvars, dl, aged>>

\* extract_headings numbering the headings from base instead of 0
RECURSIVE ExtractLoop_From(_, _, _, _, _)
ExtractLoop_From(soup, found, i, base, acc) ==
    IF i >= Len(found) THEN [soup |-> soup, headings |-> acc]
    ELSE ExtractLoop_From(SetId(soup, found[i + 1], HeadingId(base + i)), found,
                          i + 1, base,
                          Append(acc, [HeadingRecord(soup, found[i + 1], i)
                                          EXCEPT !.id = HeadingId(base + i)]))

\* a variant of ConvertExtract in which the heading counter belongs to the
\* process: a call goes on from the number another call has reached
ConvertExtract_SharedCounter(r) ==
    /\ rq[r].pc = "parsed"
    /\ LET seen == {q \in DOMAIN rq : q # r /\ rq[q].headings # <<>>}
           base == IF seen = {} THEN 0 ELSE Len(rq[CHOOSE q \in seen : TRUE].headings)
           res == ExtractLoop_From(rq[r].html, FindAll(rq[r].html, <<>>, 1), 0, base, <<>>)
       IN rq' = [rq EXCEPT ![r].hsoup = res.soup,
                           ![r].headings = res.headings,
                           ![r].pc = "extracted"]
    /\ UNCHANGED <<uploads, output, nextid, pvars, lvars, dl, aged>>

\* line 196: headings = converter.extract_headings(html_content)
ConvertExtract(r) ==
    /\ rq[r].pc = "parsed"
    /\ rq' = [rq EXCEPT ![r].hsoup = ExtractHeadings(rq[r].html).soup,
                        ![r].headings = ExtractHeadings(rq[r].html).headings,
                        ![r].pc = "extracted"]
    /\ UNCHANGED <<uploads, output, nextid, pvars, lvars, dl, aged>>

\* line 199: chapters = converter.split_content_by_chapters(html_content, headings)
ConvertSplit(r) ==
    /\ rq[r].pc = "extracted"
    /\ rq' = [rq EXCEPT
                ![r].chapters = SplitContentByChapters(rq[r].html, rq[r].headings,
                                                       rq[r].hsoup),
                ![r].pc = "split"]
    /\ UNCHANGED <<uploads, output, nextid, pvars, lvars, dl, aged>>

\* line 202, create_epub_with_cover lines 285-408: the book is built
ConvertBuildBook(r) ==
    /\ rq[r].pc = "split"
    /\ rq' = [rq EXCEPT
                ![r].book = CreateEpubWithCover(rq[r].chapters, rq[r].headings,
                                                rq[r].cover_path, uploads),
                ![r].media_type =
                    IF rq[r].cover_path.some /\ Exists(uploads, rq[r].cover_path.val)
                    THEN MediaTypeOf(rq[r].cover_path.val) ELSE <<>>,
                ![r].pc = "built"]
    /\ UNCHANGED <<uploads, output, nextid, pvars, lvars, dl, aged>>

\* lines 295-296 raise (the cover file cannot be read); lines 211-214 answer
ConvertCoverReadFails(r) ==
    /\ rq[r].pc = "split"
    /\ rq[r].cover_path.some
    /\ Exists(uploads, rq[r].cover_path.val)
    /\ rq' = [rq EXCEPT ![r].pc = "done", ![r].resp = ServerError("cover unreadable")]
    /\ UNCHANGED <<uploads, output, nextid, pvars, lvars, dl, aged>>

\* line 411, epub.write_epub(output_file, book, {}): the archive is created
\* at the output path itself
ConvertWriteOpen(r) ==
    /\ rq[r].pc = "built"
    /\ output' = {f \in output : f.name # rq[r].epub_filename}
                 \cup {[name |-> rq[r].epub_filename, complete |-> FALSE, book |-> NoBook]}
    /\ rq' = [rq EXCEPT ![r].pc = "writing"]
    /\ UNCHANGED <<uploads, nextid, pvars, lvars, dl, aged>>

\* line 411 raises before the archive exists; lines 211-214 answer
ConvertOpenFails(r) ==
    /\ rq[r].pc = "built"
    /\ rq' = [rq EXCEPT ![r].pc = "done", ![r].resp = ServerError("cannot create")]
    /\ UNCHANGED <<uploads, output, nextid, pvars, lvars, dl, aged>>

\* line 411: the items are written and the archive is closed
ConvertWriteClose(r) ==
    /\ rq[r].pc = "writing"
    /\ output' = {f \in output : f.name # rq[r].epub_filename}
                 \cup {[name |-> rq[r].epub_filename, complete |-> TRUE,
                        book |-> rq[r].book]}
    /\ rq' = [rq EXCEPT ![r].pc = "written"]
    /\ UNCHANGED <<uploads, nextid, pvars, lvars, dl, aged>>

\* line 411 raises while the items are written; lines 211-214 answer and
\* leave the output directory as it is
ConvertWriteFails(r) ==
    /\ rq[r].pc = "writing"
    /\ rq' = [rq EXCEPT ![r].pc = "done", ![r].resp = ServerError("cannot write")]
    /\ UNCHANGED <<uploads, output, nextid, pvars, lvars, dl, aged>>

\* lines 204-209: the success answer
ConvertRespond(r) ==
    /\ rq[r].pc = "written"
    /\ rq' = [rq EXCEPT ![r].pc = "done",
                        ![r].resp = Success(rq[r].unique_id, rq[r].epub_filename)]
    /\ UNCHANGED <<uploads, output, nextid, pvars, lvars, dl, aged>>

\* str.endswith(suffix)
EndsWith(s, suffix) ==
    Len(s) >= Len(suffix) /\ SubSeq(s, Len(s) - Len(suffix) + 1, Len(s)) = suffix

EpubSuffix == <<".", "e", "p", "u", "b">>

\* a proper prefix of every identifier
IdPrefix == <<"id-">>

\* an identifier that was never drawn
UnknownId == <<"id-", "z">>

\* the download_id values sent to /api/download: the identifiers returned
\* by the successful conversions so far, a proper prefix of them, and an
\* identifier that was never issued
DownloadIds ==
    {rq[r].resp.download_id : r \in {q \in DOMAIN rq : rq[q].resp.status = 200}}
    \cup {IdPrefix, UnknownId}

\* download_file(download_id), lines 222-243: the first file of the output
\* directory, in the order os.listdir happens to give, whose name starts with
\* download_id and ends with '.epub' is sent; 404 when there is none
Download(d) ==
    /\ dl[d].pc = "start"
    /\ \E id \in DownloadIds :
          LET matches == {f \in output : StartsWith(f.name, id)
                                          /\ EndsWith(f.name, EpubSuffix)}
          IN IF matches = {}
             THEN dl' = [dl EXCEPT ![d] = [pc |-> "done", download_id |-> id,
                                           status |-> 404, file |-> NoFile]]
             ELSE \E f \in matches :
                     dl' = [dl EXCEPT ![d] = [pc |-> "done", download_id |-> id,
                                              status |-> 200, file |-> f]]
    /\ UNCHANGED <<rq, uploads, output, nextid, aged, pvars, lvars>>

\* the names of the files of both directories
FileNames == {f.name : f \in uploads} \cup {f.name : f \in output}

\* an hour passes: every file there is becomes older than an hour (lines
\* 57-59).  A call of convert_to_epub lasts less than an hour, so the hour
\* passes while no call is between its first and its last file operation.
HourPasses ==
    /\ \A r \in DOMAIN rq : rq[r].pc \in {"start", "done"}
    /\ aged # FileNames
    /\ aged' = FileNames
    /\ UNCHANGED <<rq, uploads, output, nextid, dl, pvars, lvars>>

\* cleanup_old_files, one iteration of its loops (lines 54-63): a file older
\* than an hour is removed.  The call runs in the thread of a request for
\* '/', alongside the conversions.
CleanupOldFiles ==
    /\ \E n \in aged :
          /\ uploads' = {f \in uploads : f.name # n}
          /\ output' = {f \in output : f.name # n}
          /\ aged' = aged \ {n}
    /\ UNCHANGED <<rq, nextid, dl, pvars, lvars>>

SNext ==
    \/ UploadCover
    \/ HourPasses
    \/ CleanupOldFiles
    \/ \E d \in DlRequests : Download(d)
    \/ \E r \in SrvRequests :
          \/ ConvertValidate(r)
          \/ ConvertNewId(r)
          \/ ConvertWriteMd(r)
          \/ ConvertFindCover(r)
          \/ ConvertParse(r)
          \/ ConvertExtract(r)
          \/ ConvertSplit(r)
          \/ ConvertBuildBook(r)
          \/ ConvertCoverReadFails(r)
          \/ ConvertWriteOpen(r)
          \/ ConvertOpenFails(r)
          \/ ConvertWriteClose(r)
          \/ ConvertWriteFails(r)
          \/ ConvertRespond(r)

SpecSrv == SInit /\ [][SNext]_vars

----------------------------------------------------------------------------
(* SpecConc: two calls of convert_to_epub at once (app.run(threaded=True)) *)

\* the upload directory when the two calls arrive: empty, or holding one
\* cover image that upload_cover saved under the first identifier
CoversAtStart ==
    {{}} \cup {{[name |-> CoverFileName(Uuid(1), ext), data |-> "image"]} :
                  ext \in {Ext_png, Ext_jpg}}

\* the cover, if any, was uploaded shortly before, or over an hour ago
CInit ==
    /\ rq = [r \in ConcRequests |-> NewRequest]
    /\ uploads \in CoversAtStart
    /\ output = {}
    /\ nextid = Cardinality(uploads) + 1
    /\ dl = <<>>
    /\ aged \in SUBSET {f.name : f \in uploads}
    /\ PIdle
    /\ LIdle

CNext ==
    \/ CleanupOldFiles
    \/ \E r \in ConcRequests :
          \/ ConvertValidate(r)
          \/ ConvertNewId(r)
          \/ ConvertWriteMd(r)
          \/ ConvertFindCover(r)
          \/ ConvertParse(r)
          \/ ConvertExtract(r)
          \/ ConvertSplit(r)
          \/ ConvertBuildBook(r)
          \/ ConvertCoverReadFails(r)
          \/ ConvertWriteOpen(r)
          \/ ConvertOpenFails(r)
          \/ ConvertWriteClose(r)
          \/ ConvertWriteFails(r)
          \/ ConvertRespond(r)

SpecConc == CInit /\ [][CNext]_vars

----------------------------------------------------------------------------
(* Properties of the pipeline (checked under Spec) *)

SplitDone == pc \in {"split", "assembled"}

\* the leaf blocks of a tree, in document order
RECURSIVE Leaves(_, _)
Leaves(nodes, i) ==
    IF i > Len(nodes) THEN <<>>
    ELSE (IF nodes[i].kids # <<>> THEN Leaves(nodes[i].kids, 1) ELSE <<nodes[i]>>)
         \o Leaves(nodes, i + 1)

\* the block stream of the document, as extract_headings left it
DocBlocks == Leaves(hsoup, 1)

\* the heading blocks of the document, in document order
DocHeadings == SelectSeq(Leaves(html, 1), LAMBDA n : IsHeadingTag(n.name))

HasTag(name) == \E k \in 1..Len(DocHeadings) : DocHeadings[k].name = name

\* the level of the document's boundary headings; 0 when it has none
DocBoundaryLevel == IF HasTag("h1") THEN 1 ELSE IF HasTag("h2") THEN 2 ELSE 0

\* the boundary headings of the document, in document order
DocBoundaries ==
    SelectSeq(DocHeadings, LAMBDA n : n.name = HeadingTags[DocBoundaryLevel])

RECURSIVE ConcatContent(_, _)
ConcatContent(chs, i) ==
    IF i > Len(chs) THEN <<>> ELSE chs[i].content \o ConcatContent(chs, i + 1)

\* the blocks that end a chapter: headings at or above the boundary level
EndsChapter(n) ==
    \E l \in 1..DocBoundaryLevel : n.name = HeadingTags[l]

\* the source index of the first block after s that ends a chapter, or the
\* index after the last block
ChapterEnd(s) ==
    IF \E e \in (s + 1)..Len(DocBlocks) : EndsChapter(DocBlocks[e])
    THEN CHOOSE e \in (s + 1)..Len(DocBlocks) :
            /\ EndsChapter(DocBlocks[e])
            /\ \A f \in (s + 1)..(e - 1) : ~EndsChapter(DocBlocks[f])
    ELSE Len(DocBlocks) + 1

\* C1: when the document has a boundary heading, the chapters' contents
\* concatenated in order are exactly the document's blocks from the first
\* boundary heading to the end: no block twice, none skipped, none from
\* before the first boundary heading.
C1_SegmentationCoverage ==
    (SplitDone /\ DocBoundaryLevel # 0) =>
        Leaves(ConcatContent(chapters, 1), 1)
            = SubSeq(DocBlocks, DocBoundaries[1].src, Len(DocBlocks))

\* C2: the chapter of a boundary heading holds that heading and every
\* following block up to, and excluding, the next heading at or above the
\* boundary level; lower-level headings stay inside the chapter.
C2_ChapterTermination ==
    (SplitDone /\ DocBoundaryLevel # 0 /\ Len(chapters) = Len(DocBoundaries)) =>
        \A k \in 1..Len(chapters) :
            Leaves(chapters[k].content, 1)
                = SubSeq(DocBlocks, DocBoundaries[k].src,
                         ChapterEnd(DocBoundaries[k].src) - 1)

\* C3: one chapter per level-1 heading, or per level-2 heading when there is
\* no level-1 heading, in document order, each titled with its heading's
\* extracted text.
C3_BoundarySelection ==
    (SplitDone /\ DocBoundaryLevel # 0) =>
        /\ Len(chapters) = Len(DocBoundaries)
        /\ \A k \in 1..Len(chapters) :
              /\ chapters[k].title = Strip(DocBoundaries[k].text)
              /\ chapters[k].content[1].src = DocBoundaries[k].src
              /\ chapters[k].content[1].name = HeadingTags[DocBoundaryLevel]

\* two level-2 chapters with the same title, in a document without h1,
\* the title being the heading's text without its leading whitespace
C3_Witness ==
    /\ SplitDone
    /\ DocBoundaryLevel = 2
    /\ Len(chapters) = 2
    /\ chapters[1].title = chapters[2].title
    /\ DocBoundaries[1].text # chapters[1].title

\* C4: a document without any heading, or without h1 and h2 headings, gives
\* exactly one chapter, titled with the default title, holding the whole
\* document.
C4_SingleChapterFallback ==
    (SplitDone /\ DocBoundaryLevel = 0) =>
        /\ Len(chapters) = 1
        /\ chapters[1].title = DefaultTitle
        /\ chapters[1].content = html

\* headings exist, none of level 1 or 2, and the document has several blocks
C4_Witness ==
    /\ SplitDone
    /\ DocBoundaryLevel = 0
    /\ headings # <<>>
    /\ Len(html) >= 2
    /\ Len(chapters) = 1

\* C5: one record per heading in document order; the record at 0-based
\* position n has id heading_<n> and the heading's syntactic level; ids are
\* pairwise distinct.
C5_HeadingIds ==
    (pc # "parsed") =>
        /\ Len(headings) = Len(DocHeadings)
        /\ \A k \in 1..Len(headings) :
              /\ headings[k].id = <<"heading_", k - 1>>
              /\ headings[k].level \in 1..6
              /\ HeadingTags[headings[k].level] = DocHeadings[k].name
              /\ NodeAt(html, headings[k].element).src = DocHeadings[k].src
        /\ \A j, k \in 1..Len(headings) : j # k => headings[j].id # headings[k].id

\* two headings of the same level and text, after a heading of another level
C5_Witness ==
    /\ pc = "extracted"
    /\ Len(headings) = 3
    /\ headings[1].level # headings[2].level
    /\ headings[2].level = headings[3].level
    /\ headings[2].title = headings[3].title

\* C6: the spine is the navigation resource followed by the chapter
\* documents in chapter order; the table of contents has one entry per
\* chapter in that order, entry i linking to chapter_<i>.xhtml, the file of
\* the i-th spine document, and labelled with chapter i's title.
C6_SpineNavConsistency ==
    (pc = "assembled") =>
        /\ Len(book.spine) = Len(chapters) + 1
        /\ book.spine[1] = NavRef
        /\ Len(book.toc) = Len(chapters)
        /\ \A k \in 1..Len(chapters) :
              /\ book.spine[k + 1].file_name = <<"chapter_", k - 1, ".xhtml">>
              /\ book.spine[k + 1].content = chapters[k].content
              /\ book.toc[k].href = book.spine[k + 1].file_name
              /\ book.toc[k].title = chapters[k].title
        /\ {book.toc[k].href : k \in 1..Len(book.toc)}
             = {book.spine[k].file_name : k \in 2..Len(book.spine)}

\* a book of two chapters with different titles
C6_Witness ==
    /\ pc = "assembled"
    /\ Len(chapters) = 2
    /\ chapters[1].title # chapters[2].title
    /\ Len(book.toc) = 2

----------------------------------------------------------------------------
(* Properties of the code-block labelling (checked under SpecLang) *)

\* the block carries no language annotation and its language was computed
Guessed == lpc \in {"lang", "done"} /\ LangFromClasses(code.classes, 1) = <<>>

\* the tags in the order of their rules
RankedTags ==
    <<Tag_sql, Tag_python, Tag_javascript, Tag_java, Tag_html, Tag_css, Tag_bash>>

\* which rules match a code text, in the same order
RankedMatches(t) ==
    <<SqlRule(t), PythonRule(t), JsRule(t), JavaRule(t), HtmlRule(t), CssRule(t),
      BashRule(t)>>

ScenarioSelect ==
    <<"S", "E", "L", "E", "C", "T", " ", "*", " ", "F", "R", "O", "M", " ", "t">>

ScenarioDef == <<"d", "e", "f", " ", "f", "(", ")", ":">>

\* C7: an unannotated block is tagged by the first rule that matches its
\* (lower-cased) text in the order sql, python, javascript, java, html, css,
\* bash, and 'text' when none matches; "SELECT * FROM t" is tagged sql and
\* "def f():" python.
C7_ClassifierRanking ==
    Guessed =>
        LET m == RankedMatches(Lower(Strip(code.text)))
        IN /\ lang \in {RankedTags[k] : k \in 1..7} \cup {Tag_text}
           /\ \A k \in 1..7 :
                 (m[k] /\ \A j \in 1..(k - 1) : ~m[j]) => lang = RankedTags[k]
           /\ (\A k \in 1..7 : ~m[k]) => lang = Tag_text
           /\ Contains(code.text, ScenarioSelect) => lang = Tag_sql
           /\ code.text = ScenarioDef => lang = Tag_python

\* a block whose text matches the sql rule (in upper case) and the python rule
C7_Witness ==
    /\ Guessed
    /\ lpc = "done"
    /\ Contains(code.text, ScenarioSelect)
    /\ Contains(code.text, ScenarioDef)
    /\ lang = Tag_sql

----------------------------------------------------------------------------
(* Properties of the web service (checked under SpecSrv) *)

\* a required field that is missing, or empty once trimmed
BlankField(v) == ~v.some \/ Strip(v.val) = <<>>

\* the request was answered with the validation error
Rejected(r) == rq[r].pc = "done" /\ rq[r].resp = BadRequest

\* C8: a request whose title or author is missing or empty after trimming
\* is rejected with the validation error before anything is parsed, and no
\* package file is produced for it.
C8_ValidationBeforeParsing ==
    \A r \in DOMAIN rq :
        (rq[r].pc # "start"
           /\ (BlankField(rq[r].data.title) \/ BlankField(rq[r].data.author))) =>
            /\ Rejected(r)
            /\ rq[r].html = <<>> /\ rq[r].headings = <<>> /\ rq[r].chapters = <<>>
            /\ rq[r].book = NoBook
            /\ \A f \in output : f.name # rq[r].epub_filename

\* C9: once a conversion has ended, a package file is at its output path
\* only if the conversion succeeded, and then the file is complete and holds
\* the book that was assembled; a failed conversion leaves no file.
C9_AtomicAssembly ==
    \A r \in DOMAIN rq :
        rq[r].pc = "done" =>
            \A f \in output :
                f.name = rq[r].epub_filename =>
                    /\ rq[r].resp.status = 200
                    /\ f.complete
                    /\ f.book = rq[r].book

\* the media type that goes with the extension of a cover file
MediaOfExtension(path) ==
    IF AfterLastDot(path) = Ext_png THEN <<"image/", "p", "n", "g">>
    ELSE IF AfterLastDot(path) = Ext_gif THEN <<"image/", "g", "i", "f">>
    ELSE <<"image/", "j", "p", "e", "g">>

\* C10: a supplied cover image is the book's cover resource, and the media
\* type of that resource follows the extension of the cover file: image/png
\* for png, image/gif for gif, image/jpeg otherwise.
C10_CoverMediaType ==
    \A r \in DOMAIN rq :
        (rq[r].book # NoBook /\ rq[r].cover_path.some) =>
            /\ rq[r].book.cover # NoCover
            /\ rq[r].book.cover.content = ReadFile(uploads, rq[r].cover_path.val)
            /\ rq[r].book.cover.media_type = MediaOfExtension(rq[r].cover_path.val)

----------------------------------------------------------------------------
(* Further properties of the pipeline (checked under Spec) *)

\* C11: every chapter returned by split_content_by_chapters has content:
\* no chapter of the list is empty, whatever the input text.
C11_NonEmptyChapters ==
    SplitDone => \A k \in 1..Len(chapters) : chapters[k].content # <<>>

\* the heading elements as they appear in the chapters' contents
ChapterHeadings ==
    SelectSeq(Leaves(ConcatContent(chapters, 1), 1), LAMBDA n : IsHeadingTag(n.name))

\* C15: each heading element found in the chapters' contents carries, as its
\* id attribute, the id of the heading record made for it by
\* extract_headings; on the boundary path and on the single-chapter paths.
C15_HeadingAnchors ==
    SplitDone =>
        \A k \in 1..Len(headings) :
            \A j \in 1..Len(ChapterHeadings) :
                ChapterHeadings[j].src = NodeAt(html, headings[k].element).src =>
                    ChapterHeadings[j].id = headings[k].id

----------------------------------------------------------------------------
(* Properties of concurrent conversions (checked under SpecConc) *)

\* the call has its chapter list
Segmented(r) == rq[r].chapters # <<>>

AloneHtml(r) == MdConvert(Strip(rq[r].data.content.val))

AloneHeadings(r) == ExtractHeadings(AloneHtml(r)).headings

AloneChapters(r) ==
    SplitContentByChapters(AloneHtml(r), AloneHeadings(r),
                           ExtractHeadings(AloneHtml(r)).soup)

\* the book a call builds when it runs alone: its own chapters, and the
\* cover file it found in the upload directory
AloneBook(r) ==
    [identifier |-> "md2epub-web",
     toc        |-> CreateDetailedToc(AloneHeadings(r), AloneChapters(r)),
     spine      |-> <<NavRef>> \o EpubChapters(AloneChapters(r)),
     cover      |-> IF rq[r].cover_path.some THEN SetCover(CoverName, "image")
                    ELSE NoCover]

\* C13: in every interleaving of the calls of convert_to_epub and of
\* cleanup_old_files, a call's chapter list, its book and its package are
\* the ones it gets when it runs alone: computed from its own markup and the
\* cover it found, written under its own identifier, and still there,
\* complete, when the call answers with success.
C13_Isolation ==
    \A r \in DOMAIN rq :
        /\ Segmented(r) => rq[r].chapters = AloneChapters(r)
        /\ rq[r].book # NoBook => rq[r].book = AloneBook(r)
        /\ rq[r].resp.status = 200 =>
              \E f \in output :
                  /\ f.name = EpubFileName(rq[r].unique_id, rq[r].title)
                  /\ f.complete
                  /\ f.book = rq[r].book
        /\ \A q \in DOMAIN rq :
              (q # r /\ rq[q].unique_id # <<>>) => rq[q].unique_id # rq[r].unique_id

\* the call ended with the failure answer of the except clause
Failed(r) == rq[r].pc = "done" /\ rq[r].resp.status = 500

\* C14: the failure reported to the caller is opaque: two conversions that
\* fail, whatever exception each met, are answered with the same error.
C14_OpaqueErrors ==
    \A r1, r2 \in DOMAIN rq :
        (Failed(r1) /\ Failed(r2)) => rq[r1].resp.error = rq[r2].resp.error

----------------------------------------------------------------------------
(* Further properties of the web service (checked under SpecSrv) *)

\* the elements of a tree, containers included, in document order
RECURSIVE Elements(_, _)
Elements(nodes, i) ==
    IF i > Len(nodes) THEN <<>>
    ELSE <<nodes[i]>> \o Elements(nodes[i].kids, 1) \o Elements(nodes, i + 1)

\* the code blocks found in the chapters of a call
ChapterCodeBlocks(r) ==
    SelectSeq(Elements(ConcatContent(rq[r].chapters, 1), 1), LAMBDA n : n.name = "pre")

\* the markup lines of a call that stand for blocks
BlockLines(r) == SelectSeq(rq[r].content, LAMBDA l : l \notin Whitespace)

\* the language a markup line annotates its code block with; <<>> for none
Annotation(line) ==
    IF line = "~~~java x;~~~" THEN <<"j", "a", "v", "a">> ELSE <<>>

\* the text of the label a code block is to carry
ExpectedLabel(line) ==
    IF Annotation(line) # <<>> THEN Upper(Annotation(line))
    ELSE Upper(GuessLanguage(CodeTextOf(LineBlock(line).text)))

\* the language labels (span elements) put into a code block
Labels(n) == SelectSeq(n.kids, LAMBDA k : k.name = "span")

\* C16: every code block in the chapters of a conversion request carries
\* exactly one language label, the annotated language when the block has an
\* annotation and the classifier's tag otherwise, and its literal text is the
\* text of the markup.
C16_CodeBlocksLabelled ==
    \A r \in DOMAIN rq :
        Segmented(r) =>
            \A j \in 1..Len(ChapterCodeBlocks(r)) :
                LET n == ChapterCodeBlocks(r)[j]
                    line == BlockLines(r)[n.src]
                IN /\ n.text = LineBlock(line).text
                   /\ Len(Labels(n)) = 1
                   /\ Labels(n)[1].text = ExpectedLabel(line)

\* the calls of convert_to_epub that returned download_id with success
IssuedBy(download_id) ==
    {r \in DOMAIN rq : rq[r].resp.status = 200 /\ rq[r].resp.download_id = download_id}

\* C17: download_file sends a file only for a download_id that a successful
\* conversion returned, and the file sent is the package that conversion
\* wrote; for every other value, a proper prefix of an issued identifier
\* included, the answer is 'not found'.
C17_DownloadExact ==
    \A d \in DOMAIN dl :
        dl[d].pc = "done" =>
            IF IssuedBy(dl[d].download_id) = {}
            THEN dl[d].status = 404
            ELSE dl[d].status = 200 =>
                    \E r \in IssuedBy(dl[d].download_id) :
                        /\ dl[d].file.name = rq[r].epub_filename
                        /\ dl[d].file.complete
                        /\ dl[d].file.book = rq[r].book

====
